---- MODULE Spec2Model ----
(***************************************************************************)
(* A model of sl-pitchfork's pitchfuncs modules: the emulator (artifact     *)
(* loading and the predict pipeline, in the plain variant of                *)
(* src/pitchfuncs.py and the temperature-recomputing, windowing variant of  *)
(* src/grd/pitchfuncs.py) and the nested-sampling orchestrator ns (ptform,  *)
(* logl, __call__).                                                         *)
(*                                                                          *)
(* Numbers.  The code computes in floating point; the model computes        *)
(* exactly.  A rational is a pair <<n, d>> in lowest terms with d > 0.      *)
(* An emulator output is a record [k, v, e]: k = "lin" is the plain number  *)
(* v (a log10-domain value); k = "mono" is the positive real                *)
(*   10^(e[1]/Q) * 4^(e[2]/Q) * pi^(e[3]/Q) * sigma^(e[4]/Q)                *)
(*   * L_sun^(e[5]/Q) * R_sun^(e[6]/Q)                                      *)
(* so that products, quotients, integer powers and the fourth root of the   *)
(* Stefan-Boltzmann relation are exact operations on exponents.             *)
(***************************************************************************)
EXTENDS Integers, Sequences, FiniteSets, TLC

VARIABLES
    artifact,     \* the model artifact pair on disk (metadata .pkl, network .h5)
    emu,          \* the emulator object under construction / constructed
    call,         \* the last emulator.predict call: arguments and outcome
    ns,           \* the orchestrator's fields
    ctor,         \* the arguments the orchestrator was constructed with
    frames,       \* the ptform invocations in flight, one per sampler thread
    theta_buf,    \* the list each ptform invocation is building
    logl_log,     \* the last two logl calls: theta, prediction, value
    run           \* the last __call__ invocation: number, outcome, return value

vars == <<artifact, emu, call, ns, ctor, frames, theta_buf, logl_log, run>>

---------------------------------------------------------------------------
(* Bounds of the model *)
MaxClassical == 3
MaxAstero == 36
MaxRows == 2
MaxNMin == 7
MaxNMax == 6
MaxDim == 2
MaxRuns == 3

(* Program constants *)
NMinDefault == 6
NMaxDefault == 40
RootDegree == 4
LoglScaleDen == 1000
NLiveDefault == 500

---------------------------------------------------------------------------
(* Exact rational arithmetic *)
Abs(x) == IF x < 0 THEN -x ELSE x

RECURSIVE Gcd(_, _)
Gcd(a, b) == IF b = 0 THEN a ELSE Gcd(b, a % b)

Rat(n, d) ==
    LET s == IF d < 0 THEN -1 ELSE 1
        g == Gcd(Abs(n), Abs(d))
    IN  IF n = 0 THEN <<0, 1>> ELSE <<(s * n) \div g, (s * d) \div g>>

RInt(k) == <<k, 1>>
RAdd(a, b) == Rat(a[1] * b[2] + b[1] * a[2], a[2] * b[2])
RSub(a, b) == Rat(a[1] * b[2] - b[1] * a[2], a[2] * b[2])
RMul(a, b) == Rat(a[1] * b[1], a[2] * b[2])
RDiv(a, b) == Rat(a[1] * b[2], a[2] * b[1])
RNeg(a) == <<-a[1], a[2]>>
RLess(a, b) == a[1] * b[2] < b[1] * a[2]

RECURSIVE RSum(_)
RSum(s) == IF s = <<>> THEN RInt(0) ELSE RAdd(Head(s), RSum(Tail(s)))

\* A numpy array holds its elements: the comprehension is evaluated once, when
\* the array is built
Array(f) == f \o <<>>

Min(a, b) == IF a < b THEN a ELSE b
Max(a, b) == IF a > b THEN a ELSE b

---------------------------------------------------------------------------
(* Emulator output values *)
NoExp == <<0, 0, 0, 0, 0, 0>>
Lin(v) == [k |-> "lin", v |-> v, e |-> NoExp]
Mono(e) == [k |-> "mono", v |-> 0, e |-> e]

\* x * y, x / y, x ** n (n an integer), x ** (1/n) on monomials
MMul(x, y) == Mono([i \in 1..6 |-> x.e[i] + y.e[i]])
MDiv(x, y) == Mono([i \in 1..6 |-> x.e[i] - y.e[i]])
MPow(x, n) == Mono([i \in 1..6 |-> x.e[i] * n])
MRoot(x, n) == Mono([i \in 1..6 |-> x.e[i] \div n])

\* 10 ** x for a plain number x
Pow10(x) == Mono(<<RootDegree * x.v, 0, 0, 0, 0, 0>>)
\* np.log10 of a positive power of ten
Log10(x) == RInt(x.e[1] \div RootDegree)

Four == Mono(<<0, RootDegree, 0, 0, 0, 0>>)
Pi == Mono(<<0, 0, RootDegree, 0, 0, 0>>)
Sigma == Mono(<<0, 0, 0, RootDegree, 0, 0>>)
L_sun == Mono(<<0, 0, 0, 0, RootDegree, 0>>)
R_sun == Mono(<<0, 0, 0, 0, 0, RootDegree>>)

---------------------------------------------------------------------------
(* The model artifact pair: metadata record (.pkl) and trained network (.h5) *)
CustomObjectKeys ==
    {"custom_objects.inverse_pca.pca_comps",
     "custom_objects.inverse_pca.pca_mean",
     "custom_objects.WMSE.weights"}
ParameterRangeKeys ==
    {"parameter_ranges.mass.min", "parameter_ranges.mass.max"}
InputScalingKeys == {"data_scaling.inp_mean", "data_scaling.inp_std"}
OutputScalingKeys ==
    {"data_scaling.classical_out_mean", "data_scaling.astero_out_mean",
     "data_scaling.classical_out_std", "data_scaling.astero_out_std"}
DataScalingKeys == InputScalingKeys \cup OutputScalingKeys
AllKeys == CustomObjectKeys \cup ParameterRangeKeys \cup DataScalingKeys

\* The scaling statistics a metadata record of dc classical and da astero outputs
\* carries (small integers; seed varies the record).
ScalingRecord(seed, dc, da) ==
    [inp_mean           |-> <<RInt(0), RInt(1)>>,
     inp_std            |-> <<RInt(1), RInt(2)>>,
     classical_out_mean |-> Array([j \in 1..dc |-> (seed + j) % 2]),
     classical_out_std  |-> Array([j \in 1..dc |-> 1 + (j % 2)]),
     astero_out_mean    |-> Array([j \in 1..da |-> 2 + ((seed + j) % 2)]),
     astero_out_std     |-> Array([j \in 1..da |-> 1 + ((j + 1) % 2)])]

Artifact(pkl, h5, keys, seed, dc, da) ==
    [pkl |-> pkl, h5 |-> h5,
     emulator_dict |-> [keys |-> keys, data_scaling |-> ScalingRecord(seed, dc, da)],
     model |-> [seed |-> seed, classical |-> dc, astero |-> da]]

GoodArtifacts ==
    {Artifact("ok", "ok", AllKeys, seed, dc, da) :
        seed \in 0..1, dc \in 1..MaxClassical, da \in 0..MaxAstero}
DefectiveArtifacts ==
    {Artifact(f[1], f[2], AllKeys, 0, MaxClassical, 1) :
        f \in {<<"absent", "ok">>, <<"corrupt", "ok">>,
               <<"ok", "absent">>, <<"ok", "corrupt">>}}
    \cup {Artifact("ok", "ok", AllKeys \ {k}, 0, MaxClassical, 1) : k \in AllKeys}
Artifacts == GoodArtifacts \cup DefectiveArtifacts

Variants == {"plain", "grd"}

---------------------------------------------------------------------------
(* emulator.__init__ *)
Unbuilt == [state |-> "unbuilt", variant |-> "none", err |-> "none"]
Raised(variant, err) == [state |-> "raised", variant |-> variant, err |-> err]
Built(variant) == [state |-> "built", variant |-> variant, err |-> "none"]

EmulatorInitLazyRanges(art, variant) ==
    CASE art.pkl = "absent" -> Raised(variant, "FileNotFoundError")
      [] art.pkl = "corrupt" -> Raised(variant, "UnpicklingError")
      [] ~(CustomObjectKeys \subseteq art.emulator_dict.keys) ->
            Raised(variant, "KeyError")
      [] art.h5 \in {"absent", "corrupt"} -> Raised(variant, "OSError")
      [] OTHER -> Built(variant)

EmulatorInit(art, variant) ==
    CASE art.pkl = "absent" -> Raised(variant, "FileNotFoundError")
      [] art.pkl = "corrupt" -> Raised(variant, "UnpicklingError")
      [] ~(CustomObjectKeys \subseteq art.emulator_dict.keys) ->
            Raised(variant, "KeyError")
      [] art.h5 \in {"absent", "corrupt"} -> Raised(variant, "OSError")
      [] ~(ParameterRangeKeys \subseteq art.emulator_dict.keys) ->
            Raised(variant, "KeyError")
      [] OTHER -> Built(variant)

---------------------------------------------------------------------------
(* emulator.predict *)
OutDim(art) == art.model.classical + art.model.astero

\* A strictly positive input matrix: powers of ten, rows x len(inp_mean)
InputData(rows, x0) ==
    Array([r \in 1..rows |->
        Array([c \in 1..2 |-> Mono(<<RootDegree * ((x0 + r + c) % 3), 0, 0, 0, 0, 0>>)])])

LogInputs(input_data) ==
    Array([r \in 1..Len(input_data) |->
        Array([c \in 1..Len(input_data[r]) |-> Log10(input_data[r][c])])])

Standardise(log_inputs, mean, std) ==
    Array([r \in 1..Len(log_inputs) |->
        Array([c \in 1..Len(log_inputs[r]) |->
            RDiv(RSub(log_inputs[r][c], mean[c]), std[c])])])

\* The trained network is opaque: a deterministic function of its weights
\* (seed) and of the standardised row, giving two blocks of standardised
\* log-outputs per row.
RowKey(row) == RSum(row)[1] + RSum(row)[2]
NetCell(model, row, r, j) == ((model.seed + RowKey(row) + r + j) % 3) - 1
ModelCall(model, x) ==
    << Array([r \in 1..Len(x) |->
            Array([j \in 1..model.classical |-> NetCell(model, x[r], r, j)])]),
       Array([r \in 1..Len(x) |->
            Array([j \in 1..model.astero |->
                      NetCell(model, x[r], r, model.classical + j)])]) >>

\* np.concatenate((a, b), axis=1)
ConcatColumns(a, b) == Array([r \in 1..Len(a) |-> a[r] \o b[r]])

LogOutputsMeanSwapped(ds) == ds.astero_out_mean \o ds.classical_out_mean
LogOutputsMean(ds) == ds.classical_out_mean \o ds.astero_out_mean
LogOutputsStd(ds) == ds.classical_out_std \o ds.astero_out_std

\* (standardised_log_outputs * log_outputs_std) + log_outputs_mean
DeStandardise(std_out, mean, std) ==
    Array([r \in 1..Len(std_out) |->
        Array([j \in 1..Len(std_out[r]) |-> Lin(std_out[r][j] * std[j] + mean[j])])])

InverseLog(log_outputs) ==
    Array([r \in 1..Len(log_outputs) |->
        Array([j \in 1..Len(log_outputs[r]) |-> Pow10(log_outputs[r][j])])])

StandardisedLogOutputsFirstRow(art, input_data) ==
    LET ds == art.emulator_dict.data_scaling
        blocks == ModelCall(art.model,
                            Standardise(LogInputs(input_data), ds.inp_mean, ds.inp_std))
    IN  SubSeq(ConcatColumns(blocks[1], blocks[2]), 1, 1)
\* self.model(...) and np.concatenate((out[0], out[1]), axis=1)
StandardisedLogOutputs(art, input_data) ==
    LET ds == art.emulator_dict.data_scaling
        blocks == ModelCall(art.model,
                            Standardise(LogInputs(input_data), ds.inp_mean, ds.inp_std))
    IN  ConcatColumns(blocks[1], blocks[2])

LogOutputs(art, input_data) ==
    LET ds == art.emulator_dict.data_scaling
    IN  DeStandardise(StandardisedLogOutputs(art, input_data),
                      LogOutputsMean(ds), LogOutputsStd(ds))

Returned(value) == [status |-> "returned", err |-> "none", value |-> value]
Raises(err) == [status |-> "raised", err |-> err, value |-> <<>>]

PredictPlain(art, input_data) ==
    IF ~(DataScalingKeys \subseteq art.emulator_dict.keys)
    THEN Raises("KeyError")
    ELSE Returned(InverseLog(LogOutputs(art, input_data)))

\* Python's seq[start:stop] for 0-based, possibly negative, bounds
PyIndex(i, n) == IF i < 0 THEN Max(i + n, 0) ELSE Min(i, n)
PySlice(seq, start, stop) ==
    SubSeq(seq, PyIndex(start, Len(seq)) + 1, PyIndex(stop, Len(seq)))

TeffSwapped(row) ==
    MRoot(MDiv(MMul(row[1], L_sun),
               MMul(MMul(MMul(Four, Pi), Sigma), MPow(MMul(row[2], R_sun), 2))),
          RootDegree)
\* ((outputs[:,1]*L_sun) / (4*pi*sigma*((outputs[:,0]*R_sun)**2)))**0.25
Teff(row) ==
    MRoot(MDiv(MMul(row[2], L_sun),
               MMul(MMul(MMul(Four, Pi), Sigma), MPow(MMul(row[1], R_sun), 2))),
          RootDegree)

WindowStartLate(n_min) == n_min - 2
WindowStart(n_min) == n_min - 3
WindowStop(n_max) == n_max - 2

\* outputs after outputs[:,2] = log_outputs[:,2] and outputs[:,0] = teff
PostProcess(log_outputs) ==
    LET inverse_log == InverseLog(log_outputs)
    IN  Array([r \in 1..Len(log_outputs) |->
            LET dex == [inverse_log[r] EXCEPT ![3] = log_outputs[r][3]]
            IN  [dex EXCEPT ![1] = Teff(dex)]])

Window(outputs, n_min, n_max) ==
    Array([r \in 1..Len(outputs) |->
        PySlice(outputs[r], 0, 3)
        \o PySlice(outputs[r], WindowStart(n_min), WindowStop(n_max))])

PredictGrd(art, input_data, n_min, n_max) ==
    IF ~(DataScalingKeys \subseteq art.emulator_dict.keys)
    THEN Raises("KeyError")
    ELSE IF OutDim(art) < 3
    THEN Raises("IndexError")
    ELSE Returned(Window(PostProcess(LogOutputs(art, input_data)), n_min, n_max))

NoCall ==
    [op |-> "none", variant |-> "none", input_data |-> <<>>,
     n_min |-> NMinDefault, n_max |-> NMaxDefault, result |-> Raises("none")]

NMinArgs == (2..MaxNMin) \cup {NMinDefault}
NMaxArgs == (3..MaxNMax) \cup {NMaxDefault}

---------------------------------------------------------------------------
(* The emulator's operations as actions *)
nsVars == <<ns, ctor, frames, theta_buf, logl_log, run>>
emuVars == <<artifact, emu, call>>

\* emulator(emulator_name)
Construct ==
    /\ emu.state = "unbuilt"
    /\ \E variant \in Variants : emu' = EmulatorInit(artifact, variant)
    /\ UNCHANGED <<artifact, call, nsVars>>

\* pitchfuncs.emulator.predict(input_data)
PredictPlainCall ==
    /\ call.op = "none"
    /\ emu.state = "built"
    /\ emu.variant = "plain"
    /\ \E rows \in 1..MaxRows, x0 \in 0..1 :
          call' = [op |-> "predict", variant |-> "plain",
                   input_data |-> InputData(rows, x0),
                   n_min |-> NMinDefault, n_max |-> NMaxDefault,
                   result |-> PredictPlain(artifact, InputData(rows, x0))]
    /\ UNCHANGED <<artifact, emu, nsVars>>

\* grd.pitchfuncs.emulator.predict(input_data, n_min, n_max)
PredictGrdCall ==
    /\ call.op = "none"
    /\ emu.state = "built"
    /\ emu.variant = "grd"
    /\ \E rows \in 1..MaxRows, x0 \in 0..1, n_min \in NMinArgs, n_max \in NMaxArgs :
          call' = [op |-> "predict", variant |-> "grd",
                   input_data |-> InputData(rows, x0),
                   n_min |-> n_min, n_max |-> n_max,
                   result |-> PredictGrd(artifact, InputData(rows, x0), n_min, n_max)]
    /\ UNCHANGED <<artifact, emu, nsVars>>

\* The caller takes the outcome of predict; the emulator is ready for the next call
PredictDone ==
    /\ call.op = "predict"
    /\ call' = NoCall
    /\ UNCHANGED <<artifact, emu, nsVars>>

---------------------------------------------------------------------------
(* The orchestrator ns: construction *)
Half == <<1, 2>>
UGrid == << <<0, 1>>, <<1, 4>>, <<1, 2>>, <<1, 1>> >>

\* A prior is a frozen uniform distribution on [loc, loc + scale].  Frozen with
\* one-element array parameters (nd = 1) its ppf returns a one-element array;
\* frozen with plain numbers (nd = 0) its ppf returns a plain scalar.
Prior(loc, scale, nd) == [dist |-> "uniform", loc |-> loc, scale |-> scale, nd |-> nd]
PriorChoices ==
    {Prior(RInt(0), RInt(1), 1), Prior(RInt(1), RInt(2), 1), Prior(RInt(0), RInt(1), 0)}
PriorSeqs == UNION {[1..n -> PriorChoices] : n \in 1..MaxDim}

\* A stand-in for the emulator reference: predict maps a one-row matrix to a
\* one-row matrix.
Pitchforks == {"first_column", "identity"}
StubOutDim(pitchfork, ndim) == IF pitchfork = "first_column" THEN 1 ELSE ndim

NoSampler == [id |-> 0, ndim |-> 0, nlive |-> 0, bound |-> "none", sample |-> "none"]
NoResults == [sampler |-> 0, samples |-> <<>>]

\* ns.__init__
NsInit(priors, observed_vals, observed_unc, pitchfork) ==
    [priors |-> priors, obs_val |-> observed_vals, obs_unc |-> observed_unc,
     ndim |-> Len(priors), pitchfork |-> pitchfork,
     sampler |-> NoSampler, results |-> NoResults, post_samples |-> <<>>]

\* The constructor arguments an orchestrator was built from
CtorArgs(o) ==
    [priors |-> o.priors, obs_val |-> o.obs_val, obs_unc |-> o.obs_unc,
     ndim |-> o.ndim, pitchfork |-> o.pitchfork]

ObsVals(n) == {[j \in 1..n |-> RInt(1)], [j \in 1..n |-> RInt(1 + (j % 2))]}
ObsUncs(n) == {[j \in 1..n |-> <<1, 10>>], [j \in 1..n |-> RInt(1 + (j % 2))]}

---------------------------------------------------------------------------
(* ns.ptform *)
\* scipy's frozen uniform: ppf(q) = loc + scale * q, cdf(x) = (x - loc) / scale
Ppf(prior, q) ==
    [nd |-> prior.nd, data |-> <<RAdd(prior.loc, RMul(prior.scale, q))>>]
Cdf(prior, x) == RDiv(RSub(x, prior.loc), prior.scale)

\* x[0]: an IndexError on a 0-d value
CanIndex(x) == x.nd >= 1
Index0(x) == x.data[1]

PtformElemFirstU(o, u, i) == Index0(Ppf(o.priors[i], u[1]))
\* self.priors[i].ppf(u[i])[0]
PtformElem(o, u, i) == Index0(Ppf(o.priors[i], u[i]))
PtformElemRaises(o, u, i) == ~CanIndex(Ppf(o.priors[i], u[i]))

\* ptform run alone, start to end
Ptform(o, u) ==
    IF \E i \in 1..o.ndim : PtformElemRaises(o, u, i)
    THEN Raises("IndexError")
    ELSE Returned([i \in 1..o.ndim |-> PtformElem(o, u, i)])

Threads == {"t1", "t2"}
UVectors(n) ==
    {[i \in 1..n |-> Half], [i \in 1..n |-> UGrid[(i % 4) + 1]],
     [i \in 1..n |-> UGrid[((i + 2) % 4) + 1]]}

IdleFrame == [pc |-> "idle", u |-> <<>>, u0 |-> <<>>, i |-> 0, ret |-> <<>>]

ThetaSlotShared(t) == "t1"
\* The list under construction is local to the invocation
ThetaSlot(t) == t

\* The sampler calls ptform(u)
PtformCall(t) ==
    /\ frames[t].pc = "idle"
    /\ \E u \in UVectors(ns.ndim) :
          frames' = [frames EXCEPT ![t] = [pc |-> "loop", u |-> u, u0 |-> u,
                                           i |-> 1, ret |-> <<>>]]
    /\ theta_buf' = [theta_buf EXCEPT ![ThetaSlot(t)] = <<>>]
    /\ UNCHANGED <<ns, ctor, logl_log, run, emuVars>>

\* One element of the list comprehension
PtformStep(t) ==
    /\ frames[t].pc = "loop"
    /\ frames[t].i <= ns.ndim
    /\ IF PtformElemRaises(ns, frames[t].u, frames[t].i)
       THEN /\ frames' = [frames EXCEPT ![t].pc = "raised"]
            /\ UNCHANGED theta_buf
       ELSE /\ theta_buf' = [theta_buf EXCEPT ![ThetaSlot(t)] =
                                Append(@, PtformElem(ns, frames[t].u, frames[t].i))]
            /\ frames' = [frames EXCEPT ![t].i = @ + 1]
    /\ UNCHANGED <<ns, ctor, logl_log, run, emuVars>>

\* theta = np.array([...]); return theta
PtformReturn(t) ==
    /\ frames[t].pc = "loop"
    /\ frames[t].i > ns.ndim
    /\ frames' = [frames EXCEPT ![t].pc = "returned",
                                ![t].ret = theta_buf[ThetaSlot(t)]]
    /\ UNCHANGED <<ns, ctor, theta_buf, logl_log, run, emuVars>>

\* The caller drops the finished invocation
PtformRetire(t) ==
    /\ frames[t].pc \in {"returned", "raised"}
    /\ frames' = [frames EXCEPT ![t] = IdleFrame]
    /\ UNCHANGED <<ns, ctor, theta_buf, logl_log, run, emuVars>>

---------------------------------------------------------------------------
(* ns.logl *)
\* pitchfork.predict(np.array([theta])) for the stand-in emulators
StubPredict(pitchfork, input_data) ==
    IF pitchfork = "first_column"
    THEN [r \in 1..Len(input_data) |-> <<input_data[r][1]>>]
    ELSE input_data

\* A log-density is kept exactly as
\*   rat - coef * (SUM of ln(s) for s in lns  +  n * ln(sqrt(2 pi)))
LogDensity(rat, coef, lns, n) == [rat |-> rat, coef |-> coef, lns |-> lns, n |-> n]

NormLogPdfLinear(x, loc, scale) ==
    LogDensity(RNeg(RDiv(RDiv(RSub(x, loc), scale), RInt(2))), RInt(1), <<scale>>, 1)
\* scipy.stats.norm.logpdf(x, loc, scale) = -((x-loc)/scale)^2/2 - ln(scale) - ln(sqrt(2 pi))
NormLogPdf(x, loc, scale) ==
    LET z == RDiv(RSub(x, loc), scale)
    IN  LogDensity(RNeg(RDiv(RMul(z, z), RInt(2))), RInt(1), <<scale>>, 1)

RECURSIVE NpSum(_)
\* np.sum over a row of log-densities
NpSum(row) ==
    IF row = <<>> THEN LogDensity(RInt(0), RInt(1), <<>>, 0)
    ELSE LET h == Head(row)
             t == NpSum(Tail(row))
         IN  LogDensity(RAdd(h.rat, t.rat), RInt(1), h.lns \o t.lns, h.n + t.n)

ScaleBy(c, d) == LogDensity(RMul(c, d.rat), RMul(c, d.coef), d.lns, d.n)

\* a < b for two log-densities with the same constant part
DensityLess(a, b) ==
    /\ a.coef = b.coef /\ a.lns = b.lns /\ a.n = b.n
    /\ RLess(a.rat, b.rat)

LoglScale == <<1, LoglScaleDen>>

Logl(o, theta) ==
    LET m == StubPredict(o.pitchfork, <<theta>>)
        ll == [j \in 1..Len(m[1]) |-> NormLogPdf(m[1][j], o.obs_val[j], o.obs_unc[j])]
    IN  ScaleBy(LoglScale, NpSum(ll))

ThetaChoices == {Half, RInt(1), RInt(2)}
Thetas(n) == [1..n -> ThetaChoices]

\* The sampler (or a caller) evaluates logl(theta)
LoglCall ==
    /\ \E theta \in Thetas(ns.ndim) :
          logl_log' = <<[theta |-> theta,
                         m |-> StubPredict(ns.pitchfork, <<theta>>)[1],
                         value |-> Logl(ns, theta)]>>
                       \o SubSeq(logl_log, 1, Min(1, Len(logl_log)))
    /\ UNCHANGED <<ns, ctor, frames, theta_buf, run, emuVars>>

---------------------------------------------------------------------------
(* ns.__call__ *)
NLiveArgs == {NLiveDefault, 50}

NewSamplerCached(o, id, nlive) ==
    IF o.sampler.id # 0 THEN o.sampler
    ELSE [id |-> id, ndim |-> o.ndim, nlive |-> nlive, bound |-> "multi", sample |-> "rwalk"]
\* NestedSampler(self.logl, self.ptform, self.ndim, nlive=nlive, bound='multi', sample='rwalk')
NewSampler(o, id, nlive) ==
    [id |-> id, ndim |-> o.ndim, nlive |-> nlive, bound |-> "multi", sample |-> "rwalk"]

\* What run_nested may leave in sampler.results: the library is opaque, any
\* non-empty list of points of the prior's image can come back.
SampleRows(o) == {Ptform(o, u).value : u \in UVectors(o.ndim)}
PossibleSamples(o) ==
    UNION {[1..k -> SampleRows(o)] : k \in 1..2}

\* dyfunc.resample_equal(samples, weights): as many rows, each one of samples
PossibleResamples(samples) == [1..Len(samples) -> {samples[k] : k \in 1..Len(samples)}]

AllPriorsIndexable(o) == \A i \in 1..o.ndim : o.priors[i].nd >= 1

NoRun == [count |-> 0, status |-> "none", ret |-> <<>>]

\* ns()(nlive) runs to its return
RunReturns ==
    /\ run.count < MaxRuns
    /\ AllPriorsIndexable(ns)
    /\ \E nlive \in NLiveArgs, samples \in PossibleSamples(ns) :
         \E post \in PossibleResamples(samples) :
            LET sampler == NewSampler(ns, run.count + 1, nlive)
            IN  /\ ns' = [ns EXCEPT !.sampler = sampler,
                                    !.results = [sampler |-> sampler.id, samples |-> samples],
                                    !.post_samples = post]
                /\ run' = [count |-> run.count + 1, status |-> "returned", ret |-> post]
    /\ UNCHANGED <<ctor, frames, theta_buf, logl_log, emuVars>>

\* ptform raises inside the library: while it draws the first live points (in
\* the NestedSampler constructor, before self.sampler is assigned) or in run_nested
RunRaises ==
    /\ run.count < MaxRuns
    /\ ~AllPriorsIndexable(ns)
    /\ \E nlive \in NLiveArgs, where \in {"constructor", "run_nested"} :
          /\ ns' = IF where = "constructor" THEN ns
                   ELSE [ns EXCEPT !.sampler = NewSampler(ns, run.count + 1, nlive)]
          /\ run' = [count |-> run.count + 1, status |-> "raised", ret |-> <<>>]
    /\ UNCHANGED <<ctor, frames, theta_buf, logl_log, emuVars>>

---------------------------------------------------------------------------
(* Specifications *)
NoOrchestrator == NsInit(<<>>, <<>>, <<>>, "identity")
IdleNs ==
    /\ ctor = CtorArgs(ns)
    /\ frames = [t \in Threads |-> IdleFrame]
    /\ theta_buf = [t \in Threads |-> <<>>]
    /\ logl_log = <<>>
    /\ run = NoRun
IdleEmu ==
    /\ artifact = Artifact("absent", "absent", {}, 0, 0, 0)
    /\ emu = Unbuilt
    /\ call = NoCall

\* The emulator: an artifact pair on disk, nothing constructed yet
InitEmu ==
    /\ artifact \in Artifacts
    /\ emu = Unbuilt
    /\ call = NoCall
    /\ ns = NoOrchestrator
    /\ IdleNs
NextEmu == Construct \/ PredictPlainCall \/ PredictGrdCall \/ PredictDone
SpecEmu == InitEmu /\ [][NextEmu]_vars

\* ptform under a sampler that may call it from two threads
InitPtform ==
    /\ \E priors \in PriorSeqs :
          ns = NsInit(priors, <<RInt(1)>>, <<<<1, 10>>>>, "first_column")
    /\ IdleNs
    /\ IdleEmu
NextPtform ==
    \E t \in Threads : PtformCall(t) \/ PtformStep(t) \/ PtformReturn(t) \/ PtformRetire(t)
SpecPtform == InitPtform /\ [][NextPtform]_vars

\* logl
InitLogl ==
    /\ \E n \in 1..MaxDim, pitchfork \in Pitchforks :
         \E obs_val \in ObsVals(StubOutDim(pitchfork, n)),
            obs_unc \in ObsUncs(StubOutDim(pitchfork, n)) :
            ns = NsInit([i \in 1..n |-> Prior(RInt(0), RInt(2), 1)],
                        obs_val, obs_unc, pitchfork)
    /\ IdleNs
    /\ IdleEmu
NextLogl == LoglCall
SpecLogl == InitLogl /\ [][NextLogl]_vars

\* __call__
InitRun ==
    /\ \E priors \in PriorSeqs :
          ns = NsInit(priors, <<RInt(1)>>, <<<<1, 10>>>>, "first_column")
    /\ IdleNs
    /\ IdleEmu
NextRun == RunReturns \/ RunRaises
SpecRun == InitRun /\ [][NextRun]_vars

\* The whole program
Init == InitEmu \/ InitPtform \/ InitLogl \/ InitRun
Next == NextEmu \/ NextPtform \/ NextLogl \/ NextRun
Spec == Init /\ [][Next]_vars

---------------------------------------------------------------------------
(* Properties of the emulator, checked under SpecEmu *)
Keys == artifact.emulator_dict.keys
MetadataComplete == DataScalingKeys \subseteq Keys
PredictCalled == call.op = "predict"
PredictReturned == PredictCalled /\ call.result.status = "returned"
DefaultArgs ==
    call.variant = "plain" \/ (call.n_min = NMinDefault /\ call.n_max = NMaxDefault)
RetRows == Len(call.result.value)
RetCols(r) == Len(call.result.value[r])

\* The de-standardised log10 outputs, from the network's output and the
\* classical statistics followed by the astero ones
ExpectedLogs ==
    LET ds == artifact.emulator_dict.data_scaling
        dc == Len(ds.classical_out_mean)
        net == StandardisedLogOutputs(artifact, call.input_data)
    IN  Array([r \in 1..Len(net) |->
            Array([j \in 1..Len(net[r]) |->
                IF j <= dc
                THEN Lin(net[r][j] * ds.classical_out_std[j] + ds.classical_out_mean[j])
                ELSE Lin(net[r][j] * ds.astero_out_std[j - dc]
                         + ds.astero_out_mean[j - dc])])])

\* The source column (1-based) of returned column p
SourceColumn(p) ==
    IF call.variant = "plain" \/ p <= 3 THEN p
    ELSE PyIndex(call.n_min - 3, OutDim(artifact)) + (p - 3)

\* C1 as stated: with default arguments, in both variants, predict returns a
\* matrix with the input's row count and OutDim columns (granted even that
\* the record has the three classical columns the windowing variant indexes).
C1_Original ==
    (PredictCalled /\ MetadataComplete /\ DefaultArgs /\ OutDim(artifact) >= 3) =>
        /\ call.result.status = "returned"
        /\ RetRows = Len(call.input_data)
        /\ \A r \in 1..RetRows : RetCols(r) = OutDim(artifact)

\* C1 amended: the plain variant returns rows x OutDim; the windowing variant
\* with default bounds returns rows x min(OutDim, n_max - 2) when OutDim >= 3
\* (so OutDim columns exactly when 3 <= OutDim <= 38) and raises IndexError
\* when OutDim < 3.
C1_PredictShape ==
    (PredictCalled /\ MetadataComplete /\ DefaultArgs) =>
        IF call.variant = "grd" /\ OutDim(artifact) < 3
        THEN call.result.status = "raised" /\ call.result.err = "IndexError"
        ELSE /\ call.result.status = "returned"
             /\ RetRows = Len(call.input_data)
             /\ \A r \in 1..RetRows :
                   RetCols(r) = IF call.variant = "plain" THEN OutDim(artifact)
                                ELSE Min(OutDim(artifact), NMaxDefault - 2)

C1_Witness ==
    /\ PredictReturned /\ DefaultArgs /\ call.variant = "grd"
    /\ Len(call.input_data) = 2
    /\ OutDim(artifact) > NMaxDefault - 2
    /\ RetCols(2) = NMaxDefault - 2

\* C5 as stated: construction fails whenever any metadata key is missing, the
\* data_scaling keys included, so predict never fails on a missing key.
C5_Original ==
    /\ emu.state = "built" => AllKeys \subseteq Keys
    /\ PredictCalled => call.result.err # "KeyError"

\* C5 amended: construction fails exactly when a file is absent or corrupt or a
\* custom_objects or parameter_ranges key is missing; a missing data_scaling
\* key is not detected by construction and makes every later predict raise
\* KeyError.
C5_ConstructionFailures ==
    /\ emu.state # "unbuilt" =>
          (emu.state = "raised" <=>
              \/ artifact.pkl # "ok"
              \/ artifact.h5 # "ok"
              \/ ~((CustomObjectKeys \cup ParameterRangeKeys) \subseteq Keys))
    /\ PredictCalled =>
          /\ emu.state = "built"
          /\ (call.result.err = "KeyError" <=> ~MetadataComplete)

C5_Witness ==
    /\ emu.state = "built"
    /\ ~MetadataComplete
    /\ PredictCalled /\ call.result.err = "KeyError"

\* C7: in the temperature-recomputing variant the first returned column t of
\* every row satisfies the Stefan-Boltzmann relation
\* t^4 * 4 * pi * sigma * (R * R_sun)^2 = L * L_sun, with R and L the inverse-logged
\* de-standardised outputs of columns 0 and 1.
C7_Temperature ==
    (PredictReturned /\ call.variant = "grd") =>
        LET expected == ExpectedLogs
        IN  \A r \in 1..RetRows :
            LET t == call.result.value[r][1]
                R == Pow10(expected[r][1])
                L == Pow10(expected[r][2])
            IN  /\ t.k = "mono"
                /\ MMul(MPow(t, 4),
                        MMul(Four, MMul(Pi, MMul(Sigma, MPow(MMul(R, R_sun), 2)))))
                   = MMul(L, L_sun)

C7_Witness ==
    /\ PredictReturned /\ call.variant = "grd"
    /\ RetRows = 2
    /\ ExpectedLogs[1][1] # ExpectedLogs[1][2]
    /\ call.result.value[1][1] # call.result.value[2][1]

\* C8 as stated: every returned column other than the temperature column is
\* 10 ** (standardised output * std + mean).
C8_Original ==
    PredictReturned =>
        LET expected == ExpectedLogs
        IN  \A r \in 1..RetRows : \A p \in 1..RetCols(r) :
            (call.variant = "plain" \/ SourceColumn(p) # 1) =>
                call.result.value[r][p] = Pow10(expected[r][SourceColumn(p)])

\* C8 amended: as stated, except that in the temperature-recomputing variant
\* column 2 (metallicity) is returned as the de-standardised log10 value
\* itself, not its inverse log.
C8_InverseLogColumns ==
    PredictReturned =>
        LET expected == ExpectedLogs
        IN  \A r \in 1..RetRows : \A p \in 1..RetCols(r) :
            LET s == SourceColumn(p)
            IN  CASE call.variant = "plain" ->
                        call.result.value[r][p] = Pow10(expected[r][s])
                  [] call.variant = "grd" /\ s = 1 -> TRUE
                  [] call.variant = "grd" /\ s = 3 ->
                        call.result.value[r][p] = expected[r][s]
                  [] OTHER ->
                        call.result.value[r][p] = Pow10(expected[r][s])

C8_Witness ==
    /\ PredictReturned /\ call.variant = "grd"
    /\ artifact.model.classical = 3 /\ artifact.model.astero = 2
    /\ RetCols(1) = 5
    /\ call.result.value[1][3] = ExpectedLogs[1][3]
    /\ call.result.value[1][5] = Pow10(ExpectedLogs[1][5])

\* The window bounds C9 covers
WindowInRange ==
    /\ 3 <= call.n_min
    /\ call.n_min <= call.n_max + 1
    /\ call.n_max - 2 <= OutDim(artifact)
WindowLen == call.n_max - call.n_min + 1
\* The source columns (0-based) the claim lists: 0, 1, 2, n_min-3 .. n_max-3
ClaimedColumns == <<0, 1, 2>> \o [q \in 1..WindowLen |-> call.n_min - 3 + (q - 1)]
PostProcessed == PostProcess(LogOutputs(artifact, call.input_data))

\* C9 as stated: for bounds in range the result has 3 + (n_max - n_min + 1)
\* columns, the row count is unchanged and no source column appears twice.
C9_Original ==
    (PredictReturned /\ call.variant = "grd" /\ WindowInRange) =>
        /\ RetRows = Len(call.input_data)
        /\ \A r \in 1..RetRows : RetCols(r) = 3 + WindowLen
        /\ Cardinality({ClaimedColumns[p] : p \in 1..Len(ClaimedColumns)})
           = Len(ClaimedColumns)

\* C9 amended: for bounds in range the result is, in order, post-processed
\* columns 0, 1, 2 and then n_min-3 .. n_max-3; it has 3 + (n_max - n_min + 1)
\* columns and the input's row count; no source column appears twice exactly
\* when n_min >= 6 or the window is empty (for 3 <= n_min <= 5 the window
\* repeats columns n_min-3 .. 2).
C9_Window ==
    (PredictReturned /\ call.variant = "grd" /\ WindowInRange) =>
        /\ RetRows = Len(call.input_data)
        /\ LET post == PostProcessed
               cols == ClaimedColumns
           IN  \A r \in 1..RetRows :
                  /\ RetCols(r) = 3 + WindowLen
                  /\ \A p \in 1..RetCols(r) :
                        call.result.value[r][p] = post[r][cols[p] + 1]
        /\ (Cardinality({ClaimedColumns[p] : p \in 1..Len(ClaimedColumns)})
            = Len(ClaimedColumns))
           <=> (call.n_min >= 6 \/ WindowLen = 0)

C9_Witness ==
    /\ PredictReturned /\ call.variant = "grd" /\ WindowInRange
    /\ call.n_min = 4 /\ call.n_max = 6
    /\ RetCols(1) = 6
    /\ call.result.value[1][4] = call.result.value[1][2]

---------------------------------------------------------------------------
(* Properties of ptform, checked under SpecPtform *)
Finished(t) == frames[t].pc \in {"returned", "raised"}
Median(prior) == RAdd(prior.loc, RDiv(prior.scale, RInt(2)))

\* C2 as stated: for any priors, those whose ppf returns a plain scalar
\* included, every ptform call returns a vector of length ndim whose i-th
\* entry is the i-th prior's inverse CDF at u[i].
C2_Original ==
    \A t \in Threads :
        Finished(t) =>
            /\ frames[t].pc = "returned"
            /\ Len(frames[t].ret) = ns.ndim
            /\ \A i \in 1..ns.ndim : Cdf(ns.priors[i], frames[t].ret[i]) = frames[t].u0[i]

\* C2 amended: when every prior's ppf returns an indexable (one-element array)
\* result, ptform(u) returns a vector of length ndim whose i-th entry is the
\* i-th prior's inverse CDF at u[i], the median at u[i] = 0.5; when some
\* prior's ppf returns a plain scalar, ptform raises IndexError instead.
C2_PriorTransform ==
    \A t \in Threads :
        /\ frames[t].pc = "returned" =>
              /\ AllPriorsIndexable(ns)
              /\ Len(frames[t].ret) = ns.ndim
              /\ \A i \in 1..ns.ndim :
                    /\ Cdf(ns.priors[i], frames[t].ret[i]) = frames[t].u0[i]
                    /\ frames[t].u0[i] = Half => frames[t].ret[i] = Median(ns.priors[i])
        /\ frames[t].pc = "raised" => ~AllPriorsIndexable(ns)

C2_Witness ==
    /\ ns.ndim = 2
    /\ ns.priors[2] = Prior(RInt(1), RInt(2), 1)
    /\ frames["t1"].pc = "returned"
    /\ frames["t1"].u0 = <<Half, Half>>
    /\ frames["t1"].ret[2] = RInt(2)

\* C6: ptform is pure and reentrant: whatever the interleaving of the calls in
\* flight, a finished call has the outcome it has when run alone, and no call
\* changes the orchestrator's fields or its argument u.
C6_Reentrant ==
    /\ CtorArgs(ns) = ctor
    /\ \A t \in Threads :
          /\ frames[t].u = frames[t].u0
          /\ frames[t].pc = "returned" => Ptform(ns, frames[t].u0) = Returned(frames[t].ret)
          /\ frames[t].pc = "raised" => Ptform(ns, frames[t].u0).status = "raised"

C6_Witness ==
    /\ ns.ndim = 2
    /\ frames["t1"].pc = "returned"
    /\ frames["t2"].pc = "loop" /\ frames["t2"].i = 2
    /\ frames["t1"].u0 # frames["t2"].u0
    /\ Len(theta_buf["t2"]) = 1

---------------------------------------------------------------------------
(* Properties of logl, checked under SpecLogl *)
\* C3: logl is largest exactly at predictions equal to the observations: a
\* theta whose prediction differs from obs_val in some output has a strictly
\* smaller logl than a theta whose prediction equals obs_val, and all thetas
\* predicting obs_val have the same logl.
C3_LoglMaximum ==
    \A a, b \in 1..Len(logl_log) :
        logl_log[a].m = ns.obs_val =>
            IF logl_log[b].m = ns.obs_val
            THEN logl_log[b].value = logl_log[a].value
            ELSE DensityLess(logl_log[b].value, logl_log[a].value)

C3_Witness ==
    /\ ns.ndim = 2 /\ ns.pitchfork = "identity"
    /\ Len(logl_log) = 2
    /\ logl_log[1].m = ns.obs_val
    /\ logl_log[2].m # ns.obs_val
    /\ logl_log[2].m[1] = ns.obs_val[1]

---------------------------------------------------------------------------
(* Properties of __call__, checked under SpecRun *)
\* C10: after a run that returned, post_samples is the returned value, the
\* sampler is the one that run created (with ndim = len(priors)) and results
\* are that sampler's; no run, returning or raising, changes priors, obs_val,
\* obs_unc, ndim or the emulator reference.
C10_RunState ==
    /\ CtorArgs(ns) = ctor
    /\ run.status = "returned" =>
          /\ ns.post_samples = run.ret
          /\ ns.sampler.id = run.count
          /\ ns.sampler.ndim = Len(ns.priors)
          /\ ns.results.sampler = ns.sampler.id
          /\ Len(ns.post_samples) = Len(ns.results.samples)
          /\ \A k \in 1..Len(ns.post_samples) :
                \E l \in 1..Len(ns.results.samples) :
                    ns.post_samples[k] = ns.results.samples[l]

C10_Witness ==
    /\ run.count = 2
    /\ run.status = "returned"
    /\ Len(run.ret) = 2
    /\ ns.ndim = 2

====
